---------------------------- MODULE Spec2Model ----------------------------
(***************************************************************************)
(* Model of go-nostr's NIP-44 helpers (nip44.go: ComputeSharedSecret,      *)
(* Encrypt, encryptWithNonce, Decrypt) and of the event identifier code    *)
(* of package nostr (GetID, CheckID, Serialize, serializeEventInto).       *)
(*                                                                         *)
(* A byte is a number in 0..255, a byte slice a sequence of bytes.  A Go   *)
(* string that the code treats as text (hex, base64, the serialization)    *)
(* is a sequence of one-character strings.                                 *)
(***************************************************************************)
EXTENDS Integers, Sequences, FiniteSets, TLC

VARIABLES
    skA, skB,        \* hex private keys of the two peers of a key agreement
    pubA, pubB,      \* their x-only hex public keys
    parA, parB,      \* parity of y of the peers' real public points
    secAB, secBA,    \* ComputeSharedSecret(pubB, skA), ComputeSharedSecret(pubA, skB)
    dhPub, dhSk,     \* arguments of the last free-standing ComputeSharedSecret call
    dhRes            \* its result

dhVars == <<skA, skB, pubA, pubB, parA, parB, secAB, secBA, dhPub, dhSk, dhRes>>

VARIABLES
    encMsg, encKey,  \* arguments of the Encrypt call
    encNonce,        \* the nonce rand.Read put into its buffer
    encOut,          \* its result
    rtOut,           \* result of Decrypt on the payload Encrypt returned
    decPayload, decKey, \* arguments of a Decrypt call on an arbitrary payload
    decOut           \* its result

codecVars == <<encMsg, encKey, encNonce, encOut, rtOut, decPayload, decKey, decOut>>

VARIABLES
    callPc,          \* position of each concurrent Encrypt call
    callMsg, callKey, \* its arguments
    nonceBuf,        \* its local nonce buffer
    callOut,         \* what it returned
    randCount,       \* number of values the random source has handed out
    lastRand         \* the value it handed out last

callVars == <<callPc, callMsg, callKey, nonceBuf, callOut, randCount, lastRand>>

VARIABLES
    evt,             \* the event under identification
    serOut,          \* what Serialize returned for it
    idOut,           \* what GetID returned for it
    chkOut,          \* what CheckID did on it
    evA, serA,       \* a published event, carrying its own identifier, and its bytes
    evB, serB,       \* the same event after a change, still carrying the old identifier
    idB, chkB        \* GetID and CheckID on the changed event

eventVars == <<evt, serOut, idOut, chkOut>>
bindVars == <<evA, serA, evB, serB, idB, chkB>>

vars == <<dhVars, codecVars, callVars, eventVars, bindVars>>

-----------------------------------------------------------------------------
(* Bytes, bits and text helpers                                            *)

Byte == 0..255

Min(a, b) == IF a < b THEN a ELSE b

\* n copies of x
Repeat(x, n) == [i \in 1..n |-> x]

\* s[from..to], 1-based, empty when from > to
Slice(s, from, to) == SubSeq(s, from, to)

RECURSIVE XorBits(_, _, _)
XorBits(a, b, n) ==
    IF n = 0 THEN 0
    ELSE (((a % 2) + (b % 2)) % 2) + 2 * XorBits(a \div 2, b \div 2, n - 1)

\* a ^ b on bytes
Xor(a, b) == XorBits(a, b, 8)

hextable == <<"0", "1", "2", "3", "4", "5", "6", "7",
              "8", "9", "a", "b", "c", "d", "e", "f">>

\* encoding/hex fromHexChar: accepts both cases, -1 for any other character
FromHexChar(c) ==
    IF \E i \in 1..16 : hextable[i] = c
    THEN (CHOOSE i \in 1..16 : hextable[i] = c) - 1
    ELSE IF c = "A" THEN 10 ELSE IF c = "B" THEN 11 ELSE IF c = "C" THEN 12
    ELSE IF c = "D" THEN 13 ELSE IF c = "E" THEN 14 ELSE IF c = "F" THEN 15
    ELSE -1

\* hex.DecodeString: error on odd length or on a character that is no hex digit
HexDecodeString(s) ==
    IF Len(s) % 2 = 1 \/ \E i \in 1..Len(s) : FromHexChar(s[i]) = -1
    THEN [err |-> TRUE, val |-> <<>>]
    ELSE [err |-> FALSE,
          val |-> [i \in 1..(Len(s) \div 2) |->
                      16 * FromHexChar(s[2 * i - 1]) + FromHexChar(s[2 * i])]]

\* hex.EncodeToString: two lower-case digits per byte
HexEncodeToString(b) ==
    [i \in 1..(2 * Len(b)) |->
        IF i % 2 = 1 THEN hextable[(b[(i + 1) \div 2] \div 16) + 1]
                     ELSE hextable[(b[i \div 2] % 16) + 1]]

\* Stand-in for a cryptographic digest (sha256.Sum256, crypto.Keccak256Hash):
\* a deterministic function from byte slices to 32 bytes, folded over the input.
DigestSize == 32

\* sum of (b[i] + 1) * weight(i) modulo m over lo..hi, by halving the range
RECURSIVE Mix(_, _, _, _, _)
Mix(b, lo, hi, w, m) ==
    IF lo > hi THEN 0
    ELSE IF lo = hi THEN ((b[lo] + 1) * ((lo * lo * w + lo * 131 + 1) % m)) % m
    ELSE LET mid == (lo + hi) \div 2
         IN  (Mix(b, lo, mid, w, m) + Mix(b, mid + 1, hi, w, m)) % m

Digest(b, seed) ==
    LET h1 == (Mix(b, 1, Len(b), 977, 65521) + seed) % 65521
        h2 == (Mix(b, 1, Len(b), 7919, 65519) + seed) % 65519
    IN  [i \in 1..DigestSize |->
            IF i = 1 THEN h1 \div 256
            ELSE IF i = 2 THEN h1 % 256
            ELSE IF i = 3 THEN h2 \div 256
            ELSE IF i = 4 THEN h2 % 256
            ELSE (h1 * i + h2 * (i + 3) + Len(b)) % 256]

-----------------------------------------------------------------------------
(* ComputeSharedSecret: ECDH over a secp256k1-shaped curve                 *)
(*                                                                         *)
(* btcec's curve y^2 = x^3 + 7 over F_p with a group of prime order n is   *)
(* kept in shape and scaled down to p = 43, n = 31, so that every point    *)
(* and scalar can be enumerated.  Keys keep their 32-byte width.           *)

FieldP == 43
CurveN == 31
CurveB == 7
KeyLen == 32

Infinity == [inf |-> TRUE, x |-> 0, y |-> 0]
Pt(x, y) == [inf |-> FALSE, x |-> x, y |-> y]
BasePoint == Pt(2, 12)

ModInv(a) == CHOOSE z \in 1..(FieldP - 1) : (z * a) % FieldP = 1

OnCurve(x, y) == (y * y) % FieldP = (x * x * x + CurveB) % FieldP

PointAdd(P, Q) ==
    IF P.inf THEN Q
    ELSE IF Q.inf THEN P
    ELSE IF P.x = Q.x /\ (P.y + Q.y) % FieldP = 0 THEN Infinity
    ELSE LET lam == IF P.x = Q.x
                    THEN (3 * P.x * P.x * ModInv((2 * P.y) % FieldP)) % FieldP
                    ELSE ((Q.y - P.y + FieldP) * ModInv((Q.x - P.x + FieldP) % FieldP)) % FieldP
             x3  == (lam * lam + 2 * FieldP - P.x - Q.x) % FieldP
             y3  == (lam * (P.x - x3 + FieldP) + FieldP - P.y) % FieldP
         IN  Pt(x3, y3)

RECURSIVE ScalarMult(_, _)
ScalarMult(k, P) == IF k = 0 THEN Infinity ELSE PointAdd(P, ScalarMult(k - 1, P))

\* big-endian value of a byte slice reduced modulo the group order
\* (ModNScalar.SetByteSlice: the reduction is silent)
RECURSIVE BytesModN(_, _, _)
BytesModN(b, i, acc) ==
    IF i > Len(b) THEN acc ELSE BytesModN(b, i + 1, (acc * 256 + b[i]) % CurveN)

\* big-endian value of a byte slice, saturating at 65536
RECURSIVE BytesToInt(_, _, _)
BytesToInt(b, i, acc) ==
    IF i > Len(b) THEN acc ELSE BytesToInt(b, i + 1, Min(acc * 256 + b[i], 65536))

\* v as a big-endian slice of KeyLen bytes, v < 256
IntToBytes32(v) == [i \in 1..KeyLen |-> IF i = KeyLen THEN v ELSE 0]

\* btcec.PrivKeyFromBytes: no length or range check, it cannot fail; a slice
\* longer than 32 bytes is cut to its first 32 bytes
PrivKeyFromBytes(b) == BytesModN(Slice(b, 1, Min(Len(b), KeyLen)), 1, 0)

\* btcec.ParsePubKey on a compressed key: 33 bytes, format byte 2 or 3,
\* x below the field prime and on the curve; y takes the parity of the format
ParsePubKey(b) ==
    IF Len(b) # KeyLen + 1 \/ b[1] \notin {2, 3}
    THEN [err |-> TRUE, pt |-> Infinity]
    ELSE LET x == BytesToInt(Slice(b, 2, KeyLen + 1), 1, 0)
         IN  IF x >= FieldP \/ ~ \E y \in 0..(FieldP - 1) : OnCurve(x, y)
             THEN [err |-> TRUE, pt |-> Infinity]
             ELSE [err |-> FALSE,
                   pt  |-> Pt(x, CHOOSE y \in 0..(FieldP - 1) :
                                     OnCurve(x, y) /\ (y % 2) = (b[1] % 2))]

\* btcec.GenerateSharedSecret: the x coordinate of priv * pub, 32 bytes
GenerateSharedSecret(priv, pub) == IntToBytes32(ScalarMult(priv, pub).x)

Sum256(b) == Digest(b, 7)

NoSecret(e) == [err |-> e, secret |-> <<>>]

\* ComputeSharedSecret hashing the compressed form of the shared point
\* (parity byte and x) instead of x alone
ComputeSharedSecretCompressed(pub, sk) ==
    LET privKeyBytes == HexDecodeString(sk)
        pubKeyBytes  == HexDecodeString(<<"0", "2">> \o pub)
    IN  IF privKeyBytes.err THEN NoSecret("DecodeError")
        ELSE IF pubKeyBytes.err THEN NoSecret("DecodeError")
        ELSE LET privKey == PrivKeyFromBytes(privKeyBytes.val)
                 pubKey  == ParsePubKey(pubKeyBytes.val)
                 shared  == ScalarMult(privKey, pubKey.pt)
             IN  IF pubKey.err THEN NoSecret("InvalidKeyError")
                 ELSE [err    |-> "nil",
                       secret |-> Sum256(<<2 + (shared.y % 2)>> \o IntToBytes32(shared.x))]

ComputeSharedSecret(pub, sk) ==
    LET privKeyBytes == HexDecodeString(sk)
        pubKeyBytes  == HexDecodeString(<<"0", "2">> \o pub)
    IN  IF privKeyBytes.err THEN NoSecret("DecodeError")
        ELSE IF pubKeyBytes.err THEN NoSecret("DecodeError")
        ELSE LET privKey == PrivKeyFromBytes(privKeyBytes.val)
                 pubKey  == ParsePubKey(pubKeyBytes.val)
             IN  IF pubKey.err THEN NoSecret("InvalidKeyError")
                 ELSE [err    |-> "nil",
                       secret |-> Sum256(GenerateSharedSecret(privKey, pubKey.pt))]

-----------------------------------------------------------------------------
(* Encrypt / Decrypt                                                       *)

NonceLen == 24

\* encoding/base64 StdEncoding: the standard alphabet, '=' padding
encodeStd == <<"A", "B", "C", "D", "E", "F", "G", "H", "I", "J", "K", "L", "M",
               "N", "O", "P", "Q", "R", "S", "T", "U", "V", "W", "X", "Y", "Z",
               "a", "b", "c", "d", "e", "f", "g", "h", "i", "j", "k", "l", "m",
               "n", "o", "p", "q", "r", "s", "t", "u", "v", "w", "x", "y", "z",
               "0", "1", "2", "3", "4", "5", "6", "7", "8", "9", "+", "/">>
StdPadding == "="

\* the four characters of the i-th group of three bytes (the last group may
\* hold one or two bytes and is padded)
EncodeGroup(b, g) ==
    LET n  == Len(b) - 3 * (g - 1)
        b1 == b[3 * g - 2]
        b2 == IF n >= 2 THEN b[3 * g - 1] ELSE 0
        b3 == IF n >= 3 THEN b[3 * g] ELSE 0
    IN  << encodeStd[(b1 \div 4) + 1],
           encodeStd[((b1 % 4) * 16 + (b2 \div 16)) + 1],
           IF n >= 2 THEN encodeStd[((b2 % 16) * 4 + (b3 \div 64)) + 1] ELSE StdPadding,
           IF n >= 3 THEN encodeStd[(b3 % 64) + 1] ELSE StdPadding >>

\* base64.StdEncoding.EncodeToString
EncodeToString(b) ==
    [i \in 1..(4 * ((Len(b) + 2) \div 3)) |->
        EncodeGroup(b, ((i - 1) \div 4) + 1)[((i - 1) % 4) + 1]]

\* the encoding's decodeMap: the value of every character of the alphabet
decodeMap ==
    [c \in {encodeStd[i] : i \in 1..64} |-> (CHOOSE i \in 1..64 : encodeStd[i] = c) - 1]

\* -1 for a character outside the alphabet
DecodeChar(c) == IF c \in DOMAIN decodeMap THEN decodeMap[c] ELSE -1

\* the bytes of one group of four characters; last is TRUE for the final group
DecodeGroup(q, last) ==
    LET v == <<DecodeChar(q[1]), DecodeChar(q[2]), DecodeChar(q[3]), DecodeChar(q[4])>>
        pad2 == last /\ q[3] = StdPadding /\ q[4] = StdPadding
        pad1 == last /\ q[3] # StdPadding /\ q[4] = StdPadding
    IN  IF v[1] = -1 \/ v[2] = -1 THEN [err |-> TRUE, val |-> <<>>]
        ELSE IF pad2 THEN [err |-> FALSE, val |-> << v[1] * 4 + (v[2] \div 16) >>]
        ELSE IF v[3] = -1 THEN [err |-> TRUE, val |-> <<>>]
        ELSE IF pad1 THEN [err |-> FALSE,
                           val |-> << v[1] * 4 + (v[2] \div 16),
                                      (v[2] % 16) * 16 + (v[3] \div 4) >>]
        ELSE IF v[4] = -1 THEN [err |-> TRUE, val |-> <<>>]
        ELSE [err |-> FALSE,
              val |-> << v[1] * 4 + (v[2] \div 16),
                         (v[2] % 16) * 16 + (v[3] \div 4),
                         (v[3] % 4) * 64 + v[4] >>]

\* base64.StdEncoding.DecodeString: carriage returns and line feeds are
\* skipped; the rest must be whole, correctly padded groups of the alphabet
DecodeString(s) ==
    LET t  == SelectSeq(s, LAMBDA c : c \notin {"\n", "\r"})
        ng == Len(t) \div 4
        d  == [g \in 1..ng |-> DecodeGroup(Slice(t, 4 * g - 3, 4 * g), g = ng)]
        n  == IF ng = 0 THEN 0 ELSE 3 * (ng - 1) + Len(d[ng].val)
    IN  IF Len(t) % 4 # 0 \/ \E g \in 1..ng : d[g].err
        THEN [err |-> TRUE, val |-> <<>>]
        ELSE [err |-> FALSE,
              val |-> [j \in 1..n |-> d[((j - 1) \div 3) + 1].val[((j - 1) % 3) + 1]]]

\* Stand-in for the XChaCha20 keystream of (key, nonce): a deterministic
\* byte per position that depends on every byte of key and nonce
KeystreamByte(key, nonce, i) ==
    LET k == Mix(key \o nonce, 1, Len(key) + Len(nonce), 977, 65521)
    IN  (k * (i + 1) + (k \div 256) + 7 * i * i + 1) % 256

\* chacha20.NewUnauthenticatedCipher: the key must be 32 bytes, the nonce 12
\* or 24 bytes
NewUnauthenticatedCipher(key, nonce) ==
    IF Len(key) # KeyLen \/ Len(nonce) \notin {12, NonceLen}
    THEN [err |-> TRUE] ELSE [err |-> FALSE]

\* cipher.XORKeyStream(msg, msg)
XORKeyStream(key, nonce, msg) ==
    [i \in 1..Len(msg) |-> Xor(msg[i], KeystreamByte(key, nonce, i))]

EncErr(e) == [err |-> e, payload |-> <<>>]

\* encryptWithNonce with the nonce copied to payload[0:24], over the version
encryptWithNonceAtZero(message, key, nonce) ==
    IF NewUnauthenticatedCipher(key, nonce).err THEN EncErr("CipherError")
    ELSE LET msg     == XORKeyStream(key, nonce, message)
             payload == [i \in 1..(1 + NonceLen + Len(msg)) |->
                            IF i <= NonceLen THEN nonce[i]
                            ELSE IF i = 1 + NonceLen THEN 0
                            ELSE msg[i - 1 - NonceLen]]
         IN  [err |-> "nil", payload |-> EncodeToString(payload)]

encryptWithNonce(message, key, nonce) ==
    IF NewUnauthenticatedCipher(key, nonce).err THEN EncErr("CipherError")
    ELSE LET msg     == XORKeyStream(key, nonce, message)
             payload == [i \in 1..(1 + NonceLen + Len(msg)) |->
                            IF i = 1 THEN 1
                            ELSE IF i <= 1 + NonceLen THEN nonce[i - 1]
                            ELSE msg[i - 1 - NonceLen]]
         IN  [err |-> "nil", payload |-> EncodeToString(payload)]

\* rnd is what rand.Read did to the nonce buffer: [err, bytes]
Encrypt(message, key, rnd) ==
    IF rnd.err THEN EncErr("RandError")
    ELSE encryptWithNonce(message, key, rnd.bytes)

DecRes(k, t) == [kind |-> k, text |-> t]

\* Decrypt with the length check moved before the version check
DecryptLengthFirst(payload, key) ==
    LET dec == DecodeString(payload)
        data == dec.val
    IN  IF dec.err THEN DecRes("FormatError", <<>>)
        ELSE IF Len(data) <= 1 + NonceLen THEN DecRes("TruncatedPayloadError", <<>>)
        ELSE IF data[1] # 1 THEN DecRes("UnsupportedVersionError", <<>>)
        ELSE LET nonce == Slice(data, 2, 1 + NonceLen)
                 msg   == Slice(data, 2 + NonceLen, Len(data))
             IN  IF NewUnauthenticatedCipher(key, nonce).err
                 THEN DecRes("CipherError", <<>>)
                 ELSE DecRes("ok", XORKeyStream(key, nonce, msg))

\* data[0] on an empty slice is an index out of range: a run-time panic
Decrypt(payload, key) ==
    LET dec == DecodeString(payload)
        data == dec.val
    IN  IF dec.err THEN DecRes("FormatError", <<>>)
        ELSE IF Len(data) = 0 THEN DecRes("panic", <<>>)
        ELSE IF data[1] # 1 THEN DecRes("UnsupportedVersionError", <<>>)
        ELSE IF Len(data) <= 1 + NonceLen THEN DecRes("TruncatedPayloadError", <<>>)
        ELSE LET nonce == Slice(data, 2, 1 + NonceLen)
                 msg   == Slice(data, 2 + NonceLen, Len(data))
             IN  IF NewUnauthenticatedCipher(key, nonce).err
                 THEN DecRes("CipherError", <<>>)
                 ELSE DecRes("ok", XORKeyStream(key, nonce, msg))

-----------------------------------------------------------------------------
(* Events: Serialize, GetID, CheckID                                       *)

\* the printable ASCII characters in code order, from the space (32) on
\* (the grave accent, 96, is written by name)
printable ==
    <<" ", "!", "\"", "#", "$", "%", "&", "'", "(", ")", "*", "+", ",", "-", ".", "/",
      "0", "1", "2", "3", "4", "5", "6", "7", "8", "9", ":", ";", "<", "=", ">", "?",
      "@", "A", "B", "C", "D", "E", "F", "G", "H", "I", "J", "K", "L", "M", "N", "O",
      "P", "Q", "R", "S", "T", "U", "V", "W", "X", "Y", "Z", "[", "\\", "]", "^", "_",
      "grave", "a", "b", "c", "d", "e", "f", "g", "h", "i", "j", "k", "l", "m", "n", "o",
      "p", "q", "r", "s", "t", "u", "v", "w", "x", "y", "z", "{", "|", "}", "~">>

ord ==
    [c \in {printable[i] : i \in 1..95} |-> 31 + (CHOOSE i \in 1..95 : printable[i] = c)]

\* the byte of a character
Ord(c) == IF c = "\n" THEN 10 ELSE IF c = "\t" THEN 9 ELSE IF c = "\r" THEN 13 ELSE ord[c]

\* []byte(s)
Bytes(s) == [i \in 1..Len(s) |-> Ord(s[i])]

digits == <<"0", "1", "2", "3", "4", "5", "6", "7", "8", "9">>

RECURSIVE FormatUint(_)
FormatUint(n) ==
    IF n < 10 THEN <<digits[n + 1]>>
    ELSE Append(FormatUint(n \div 10), digits[(n % 10) + 1])

\* strconv.FormatInt(n, 10), strconv.Itoa(n)
FormatInt(n) == IF n < 0 THEN <<"-">> \o FormatUint(0 - n) ELSE FormatUint(n)

\* the escape sequence of one character: quote, backslash and the control
\* characters are escaped, every other character stands for itself
EscapeChar(c) ==
    IF c = "\"" THEN <<"\\", "\"">>
    ELSE IF c = "\\" THEN <<"\\", "\\">>
    ELSE IF c = "\n" THEN <<"\\", "n">>
    ELSE IF c = "\t" THEN <<"\\", "t">>
    ELSE IF c = "\r" THEN <<"\\", "r">>
    ELSE <<c>>

RECURSIVE EscapeFrom(_, _)
EscapeFrom(s, i) ==
    IF i > Len(s) THEN <<>> ELSE EscapeChar(s[i]) \o EscapeFrom(s, i + 1)

\* escapeString(dst, s): appends s as a quoted, escaped string literal
escapeString(dst, s) == dst \o <<"\"">> \o EscapeFrom(s, 1) \o <<"\"">>

\* the inner loop writing the comma before every item, the first included
RECURSIVE appendItemsLeadingComma(_, _, _)
appendItemsLeadingComma(dst, tag, i) ==
    IF i > Len(tag) THEN dst
    ELSE appendItemsLeadingComma(escapeString(Append(dst, ","), tag[i]), tag, i + 1)

\* the inner loop: for i, s := range tag
RECURSIVE appendItems(_, _, _)
appendItems(dst, tag, i) ==
    IF i > Len(tag) THEN dst
    ELSE appendItems(escapeString(IF i > 1 THEN Append(dst, ",") ELSE dst, tag[i]),
                     tag, i + 1)

\* the outer loop: for i, tag := range evt.Tags
RECURSIVE appendTags(_, _, _)
appendTags(dst, tags, i) ==
    IF i > Len(tags) THEN dst
    ELSE appendTags(
             Append(appendItems(Append(IF i > 1 THEN Append(dst, ",") ELSE dst, "["),
                                tags[i], 1),
                    "]"),
             tags, i + 1)

\* serializeEventInto with the comma after created_at left out
serializeEventIntoNoComma(e, dst) ==
    LET d1 == dst \o <<"[", "0", ",", "\"">> \o e.PubKey \o <<"\"", ",">>
        d2 == d1 \o FormatInt(e.CreatedAt)
        d3 == d2 \o FormatInt(e.Kind) \o <<",">>
        d4 == appendTags(Append(d3, "["), e.Tags, 1) \o <<"]", ",">>
    IN  Append(escapeString(d4, e.Content), "]")

serializeEventInto(e, dst) ==
    LET d1 == dst \o <<"[", "0", ",", "\"">> \o e.PubKey \o <<"\"", ",">>
        d2 == d1 \o FormatInt(e.CreatedAt) \o <<",">>
        d3 == d2 \o FormatInt(e.Kind) \o <<",">>
        d4 == appendTags(Append(d3, "["), e.Tags, 1) \o <<"]", ",">>
    IN  Append(escapeString(d4, e.Content), "]")

\* the capacity hint of make() has no effect on the contents
Serialize(e) == serializeEventInto(e, <<>>)

\* "\x19Ethereum Signed Message:\n"
SignedMessagePrefix ==
    <<25>> \o Bytes(<<"E", "t", "h", "e", "r", "e", "u", "m", " ",
                      "S", "i", "g", "n", "e", "d", " ",
                      "M", "e", "s", "s", "a", "g", "e", ":", "\n">>)

\* fmt.Sprintf("\x19Ethereum Signed Message:\n%d%s", len(message), message)
PrefixedMessage(message) ==
    SignedMessagePrefix \o Bytes(FormatInt(Len(message))) \o Bytes(message)

Keccak256Hash(b) == Digest(b, 3)

GetID(e) == HexEncodeToString(Keccak256Hash(PrefixedMessage(Serialize(e))))

\* the comparison loop of CheckID from iteration i on; indexing evt.ID
\* beyond its length is a run-time panic
RECURSIVE CheckLoop(_, _, _)
CheckLoop(h, id, i) ==
    IF i = 32 THEN "true"
    ELSE IF 2 * i + 1 > Len(id) THEN "panic"
    ELSE IF hextable[(h[i + 1] \div 16) + 1] # id[2 * i + 1] THEN "false"
    ELSE IF 2 * i + 2 > Len(id) THEN "panic"
    ELSE IF hextable[(h[i + 1] % 16) + 1] # id[2 * i + 2] THEN "false"
    ELSE CheckLoop(h, id, i + 1)

CheckID(e) == CheckLoop(Keccak256Hash(PrefixedMessage(Serialize(e))), e.ID, 0)

-----------------------------------------------------------------------------
(* Key agreement between two peers, and free-standing derivations          *)

None == [err |-> "none", secret |-> <<>>]

\* the 64-character hex form of a value below 256
HexOf(v) == HexEncodeToString(IntToBytes32(v))

\* a caller's key pair: the x-only public key of private scalar d is the x
\* coordinate of d * G; the parity of y is dropped
PubPoint(d) == ScalarMult(d, BasePoint)

InitDH ==
    /\ skA = <<>> /\ skB = <<>> /\ pubA = <<>> /\ pubB = <<>>
    /\ parA = 0 /\ parB = 0
    /\ secAB = None /\ secBA = None
    /\ dhPub = <<>> /\ dhSk = <<>> /\ dhRes = None

\* two peers generate valid key pairs and publish their x-only public keys
GenKeyPairs(a, b) ==
    /\ skA = <<>> /\ skB = <<>>
    /\ skA' = HexOf(a) /\ pubA' = HexOf(PubPoint(a).x) /\ parA' = PubPoint(a).y % 2
    /\ skB' = HexOf(b) /\ pubB' = HexOf(PubPoint(b).x) /\ parB' = PubPoint(b).y % 2
    /\ secAB' = None /\ secBA' = None
    /\ UNCHANGED <<dhPub, dhSk, dhRes, codecVars, callVars, eventVars, bindVars>>

\* peer A derives the secret from B's public key
DeriveAB ==
    /\ skA # <<>> /\ secAB = None
    /\ secAB' = ComputeSharedSecret(pubB, skA)
    /\ UNCHANGED <<skA, skB, pubA, pubB, parA, parB, secBA, dhPub, dhSk, dhRes, codecVars, callVars, eventVars, bindVars>>

\* peer B derives the secret from A's public key
DeriveBA ==
    /\ skB # <<>> /\ secBA = None
    /\ secBA' = ComputeSharedSecret(pubA, skB)
    /\ UNCHANGED <<skA, skB, pubA, pubB, parA, parB, secAB, dhPub, dhSk, dhRes, codecVars, callVars, eventVars, bindVars>>

\* an x below the field prime that is the coordinate of no curve point
XOffCurve == CHOOSE x \in 1..(FieldP - 1) : ~ \E y \in 0..(FieldP - 1) : OnCurve(x, y)

\* private-key arguments: valid scalars, zero, the group order and above,
\* wrong sizes, malformed hex
SkInputs ==
    { HexOf(d) : d \in {1, 5, CurveN - 1} }
    \cup { HexOf(0), HexOf(CurveN), HexOf(CurveN + 4), HexOf(255) }
    \cup { Repeat("f", 2 * KeyLen), <<>>, Repeat("0", 2 * KeyLen - 2),
           Repeat("0", 2 * KeyLen) \o <<"0", "1">>,
           Repeat("0", 2 * KeyLen - 1), Repeat("z", 2 * KeyLen) }

\* public-key arguments: x coordinates of curve points, an x off the curve,
\* x at or above the field prime, wrong sizes, malformed hex
PubInputs ==
    { HexOf(PubPoint(d).x) : d \in {1, 2, 3} }
    \cup { HexOf(XOffCurve), HexOf(FieldP), HexOf(255) }
    \cup { Repeat("f", 2 * KeyLen), <<>>, Repeat("0", 2 * KeyLen - 2),
           <<"0", "0">> \o HexOf(PubPoint(1).x),
           Repeat("0", 2 * KeyLen - 1), Repeat("z", 2 * KeyLen) }

Derive(pub, sk) ==
    /\ dhPub' = pub /\ dhSk' = sk
    /\ dhRes' = ComputeSharedSecret(pub, sk)
    /\ UNCHANGED <<skA, skB, pubA, pubB, parA, parB, secAB, secBA, codecVars, callVars, eventVars, bindVars>>


-----------------------------------------------------------------------------
(* Calls of Encrypt and Decrypt                                            *)

NoEnc == [err |-> "none", payload |-> <<>>]
NoDec == DecRes("none", <<>>)

\* bound on the number of distinct values the random source is seen to give
MaxDraws == 3

\* the n-th 24-byte value of the random source
NonceOf(n) == [i \in 1..NonceLen |-> (n * 37 + i * 11) % 256]

\* keys: two 32-byte keys and one of the wrong size
KeyOf(n, len) == [i \in 1..len |-> (n * 53 + i * 5) % 256]
Keys == { KeyOf(1, KeyLen), KeyOf(2, KeyLen), KeyOf(3, 16) }

\* plaintexts as the bytes of the Go string: empty, ASCII, multi-byte UTF-8
\* ("e" with acute accent, the euro sign), a longer text
Messages ==
    { <<>>, <<97>>, <<104, 105>>, <<195, 169>>, <<226, 130, 172, 33>>,
      <<110, 111, 115, 116, 114, 33, 0>> }

\* a frame of len bytes whose byte 0 is v
FrameOf(v, len) == [i \in 1..len |-> IF i = 1 THEN v ELSE (i * 29 + v) % 256]

FrameLens == {1, 2, NonceLen, NonceLen + 1, NonceLen + 2, NonceLen + 3, NonceLen + 6}

\* payloads handed to Decrypt: encodings of frames of every shape, and
\* strings that are not base64 or that decode to nothing
PayloadInputs ==
    { EncodeToString(FrameOf(v, len)) : v \in {0, 1, 2}, len \in FrameLens }
    \cup { <<>>, <<"\n">>, <<"A">>, <<"A", "Q">>, <<"A", "Q", "=">>,
           <<"!", "!", "!", "!">>, <<"A", "Q", "=", "=", "A", "Q", "=", "=">> }

InitCodec ==
    /\ encMsg = <<>> /\ encKey = <<>> /\ encNonce = <<>> /\ encOut = NoEnc
    /\ rtOut = NoDec
    /\ decPayload = <<>> /\ decKey = <<>> /\ decOut = NoDec

\* one call of Encrypt; rand.Read either fills the buffer or fails and
\* leaves it zeroed
EncryptCall(message, key, rnd) ==
    /\ encOut = NoEnc /\ decOut = NoDec
    /\ encMsg' = message /\ encKey' = key
    /\ encNonce' = IF rnd.err THEN Repeat(0, NonceLen) ELSE rnd.bytes
    /\ encOut' = Encrypt(message, key, rnd)
    /\ UNCHANGED <<rtOut, decPayload, decKey, decOut, dhVars, callVars, eventVars, bindVars>>

\* the receiver decrypts what Encrypt returned, with the same key
DecryptOwn ==
    /\ encOut.err = "nil" /\ rtOut = NoDec
    /\ rtOut' = Decrypt(encOut.payload, encKey)
    /\ UNCHANGED <<encMsg, encKey, encNonce, encOut, decPayload, decKey, decOut, dhVars, callVars, eventVars, bindVars>>

\* Decrypt on a payload from anywhere
DecryptCall(payload, key) ==
    /\ encOut = NoEnc /\ decOut = NoDec
    /\ decPayload' = payload /\ decKey' = key
    /\ decOut' = Decrypt(payload, key)
    /\ UNCHANGED <<encMsg, encKey, encNonce, encOut, rtOut, dhVars, callVars, eventVars, bindVars>>

RandOutcomes ==
    { [err |-> FALSE, bytes |-> NonceOf(n)] : n \in 1..MaxDraws }
    \cup { [err |-> TRUE, bytes |-> <<>>] }

-----------------------------------------------------------------------------
(* Concurrent Encrypt calls sharing the process-wide random source        *)

\* number of Encrypt calls in flight
MaxCalls == 3

Calls == 1..MaxCalls

CallKeys == { KeyOf(1, KeyLen), KeyOf(2, KeyLen) }
CallMessages == { <<104, 105>> }

InitCalls ==
    /\ callPc = [c \in Calls |-> "idle"]
    /\ callMsg = [c \in Calls |-> <<>>]
    /\ callKey = [c \in Calls |-> <<>>]
    /\ nonceBuf = [c \in Calls |-> <<>>]
    /\ callOut = [c \in Calls |-> NoEnc]
    /\ randCount = 0
    /\ lastRand = <<>>

\* Encrypt is entered: nonce := make([]byte, 24)
EncryptEnter(c, message, key) ==
    /\ callPc[c] = "idle"
    /\ callPc' = [callPc EXCEPT ![c] = "alloc"]
    /\ callMsg' = [callMsg EXCEPT ![c] = message]
    /\ callKey' = [callKey EXCEPT ![c] = key]
    /\ nonceBuf' = [nonceBuf EXCEPT ![c] = Repeat(0, NonceLen)]
    /\ UNCHANGED <<callOut, randCount, lastRand, dhVars, codecVars, eventVars, bindVars>>

\* rand.Read(nonce) succeeds: the source hands out its next value, which it
\* has given to no one before
RandRead(c) ==
    /\ callPc[c] = "alloc"
    /\ randCount' = randCount + 1
    /\ lastRand' = NonceOf(randCount + 1)
    /\ nonceBuf' = [nonceBuf EXCEPT ![c] = NonceOf(randCount + 1)]
    /\ callPc' = [callPc EXCEPT ![c] = "drawn"]
    /\ UNCHANGED <<callMsg, callKey, callOut, dhVars, codecVars, eventVars, bindVars>>

\* rand.Read(nonce) fails: Encrypt returns the error
RandFail(c) ==
    /\ callPc[c] = "alloc"
    /\ callPc' = [callPc EXCEPT ![c] = "failed"]
    /\ callOut' = [callOut EXCEPT ![c] = Encrypt(callMsg[c], callKey[c],
                                                 [err |-> TRUE, bytes |-> <<>>])]
    /\ UNCHANGED <<callMsg, callKey, nonceBuf, randCount, lastRand, dhVars, codecVars, eventVars, bindVars>>

\* the nonce buffer as one package-level variable shared by all calls
NonceArgShared(c) == lastRand

\* the nonce the call passes on: its own buffer
NonceArg(c) == nonceBuf[c]

\* return encryptWithNonce(message, key, nonce)
EncryptReturn(c) ==
    /\ callPc[c] = "drawn"
    /\ callPc' = [callPc EXCEPT ![c] = "done"]
    /\ callOut' = [callOut EXCEPT ![c] =
                      Encrypt(callMsg[c], callKey[c],
                              [err |-> FALSE, bytes |-> NonceArg(c)])]
    /\ UNCHANGED <<callMsg, callKey, nonceBuf, randCount, lastRand, dhVars, codecVars, eventVars, bindVars>>

-----------------------------------------------------------------------------
(* Calls on events                                                         *)

NoEvent == [ID |-> <<>>, PubKey |-> <<>>, CreatedAt |-> 0, Kind |-> 0,
            Tags |-> <<>>, Content |-> <<>>, Sig |-> <<>>]

\* an output that has not been produced yet
Pending == <<"pending">>

\* field values: the pubkey of 64 "a" and pubkeys that are no hex at all,
\* one holding a quote and a comma; tags that differ only in order or
\* grouping; content with a quote, a backslash, a line feed
Kinds == { 1, 11 }
TagE == <<"e">>
TagABC == <<"a", "b", "c">>
TagLists ==
    { <<>>, << <<>> >>, << <<TagE, TagABC>> >>, << <<TagE>>, <<TagABC>> >>,
      << <<TagABC, TagE>> >>, << <<TagE \o TagABC>> >>, << <<>>, <<TagE>> >> }
Contents == { <<>>, <<"h", "i">>, <<"\"">>, <<"a", "\\", "\n">> }
Sigs == { <<>>, <<"a", "b">> }

Fields(pubs, cs, ks, ts, ws) ==
    { [ID |-> <<>>, PubKey |-> p, CreatedAt |-> c, Kind |-> k, Tags |-> t,
       Content |-> w, Sig |-> <<>>] :
        p \in pubs, c \in cs, k \in ks, t \in ts, w \in ws }

ToUpper(c) ==
    IF c = "a" THEN "A" ELSE IF c = "b" THEN "B" ELSE IF c = "c" THEN "C"
    ELSE IF c = "d" THEN "D" ELSE IF c = "e" THEN "E" ELSE IF c = "f" THEN "F"
    ELSE c

\* identifiers a caller may have stored in an event whose real identifier is
\* id: id itself, id in upper case, proper prefixes of id, id with two more
\* digits, id with its last digit changed, an unrelated identifier
StoredIDs(id) ==
    { id,
      [i \in 1..Len(id) |-> ToUpper(id[i])],
      <<>>, Slice(id, 1, 10), Slice(id, 1, 63),
      id \o <<"0", "0">>,
      [i \in 1..Len(id) |-> IF i = Len(id) THEN (IF id[i] = "0" THEN "1" ELSE "0") ELSE id[i]],
      Repeat("0", 64) }

InitEvent ==
    /\ evt = NoEvent /\ serOut = Pending /\ idOut = Pending /\ chkOut = "pending"
    /\ evA = NoEvent /\ serA = Pending
    /\ evB = NoEvent /\ serB = Pending /\ idB = Pending /\ chkB = "pending"

\* a caller builds an event, with whatever identifier and signature
NewEvent(f, id, sig) ==
    /\ evt = NoEvent
    /\ evt' = [f EXCEPT !.ID = id, !.Sig = sig]
    /\ UNCHANGED <<serOut, idOut, chkOut, bindVars, dhVars, codecVars, callVars>>

CallSerialize ==
    /\ evt # NoEvent /\ serOut = Pending
    /\ serOut' = Serialize(evt)
    /\ UNCHANGED <<evt, idOut, chkOut, bindVars, dhVars, codecVars, callVars>>

CallGetID ==
    /\ evt # NoEvent /\ idOut = Pending
    /\ idOut' = GetID(evt)
    /\ UNCHANGED <<evt, serOut, chkOut, bindVars, dhVars, codecVars, callVars>>

CallCheckID ==
    /\ evt # NoEvent /\ chkOut = "pending"
    /\ chkOut' = CheckID(evt)
    /\ UNCHANGED <<evt, serOut, idOut, bindVars, dhVars, codecVars, callVars>>

\* an author publishes an event under its own identifier
Publish(f) ==
    /\ evA = NoEvent
    /\ evA' = [f EXCEPT !.ID = GetID(f), !.Sig = <<"a", "b">>]
    /\ serA' = Serialize(f)
    /\ UNCHANGED <<evB, serB, idB, chkB, eventVars, dhVars, codecVars, callVars>>

\* someone changes at least one of the five fields and keeps the identifier
Change(f) ==
    /\ evA # NoEvent /\ evB = NoEvent
    /\ \/ f.PubKey # evA.PubKey \/ f.CreatedAt # evA.CreatedAt \/ f.Kind # evA.Kind
       \/ f.Tags # evA.Tags \/ f.Content # evA.Content
    /\ evB' = [f EXCEPT !.ID = evA.ID, !.Sig = evA.Sig]
    /\ serB' = Serialize(f)
    /\ UNCHANGED <<evA, serA, idB, chkB, eventVars, dhVars, codecVars, callVars>>

\* a receiver recomputes and checks the identifier of the changed event
Verify ==
    /\ evB # NoEvent /\ chkB = "pending"
    /\ idB' = GetID(evB)
    /\ chkB' = CheckID(evB)
    /\ UNCHANGED <<evA, serA, evB, serB, eventVars, dhVars, codecVars, callVars>>

EventFields ==
    Fields({Repeat("a", 64), <<"a", "\"", ",", "1">>}, {1700000000, 11}, {1},
           TagLists, Contents)

BindFields ==
    Fields({<<"a">>, <<"a", "\"", ",", "1">>}, {1, 11}, Kinds,
           TagLists \ {<< <<>>, <<TagE>> >>}, Contents \ {<<"a", "\\", "\n">>})

-----------------------------------------------------------------------------
Init == InitDH /\ InitCodec /\ InitCalls /\ InitEvent

NextAgree ==
    \/ \E a, b \in 1..(CurveN - 1) : GenKeyPairs(a, b)
    \/ DeriveAB
    \/ DeriveBA

NextDerive == \E pub \in PubInputs, sk \in SkInputs : Derive(pub, sk)

NextCodec ==
    \/ \E m \in Messages, k \in Keys, r \in RandOutcomes : EncryptCall(m, k, r)
    \/ DecryptOwn
    \/ \E p \in PayloadInputs, k \in Keys : DecryptCall(p, k)

SpecAgree == Init /\ [][NextAgree]_vars
SpecDerive == Init /\ [][NextDerive]_vars
NextCalls ==
    \E c \in Calls :
        \/ \E m \in CallMessages, k \in CallKeys : EncryptEnter(c, m, k)
        \/ RandRead(c)
        \/ RandFail(c)
        \/ EncryptReturn(c)

NextEvent ==
    \/ \E f \in EventFields, sig \in Sigs :
           \E id \in StoredIDs(GetID(f)) : NewEvent(f, id, sig)
    \/ CallSerialize
    \/ CallGetID
    \/ CallCheckID

NextBind ==
    \/ \E f \in BindFields : Publish(f)
    \/ \E f \in BindFields : Change(f)
    \/ Verify

SpecCodec == Init /\ [][NextCodec]_vars
SpecEvent == Init /\ [][NextEvent]_vars
SpecBind == Init /\ [][NextBind]_vars
SpecCalls == Init /\ [][NextCalls]_vars

-----------------------------------------------------------------------------
(* Claims about ComputeSharedSecret                                        *)

\* C4: when both peers of a key agreement have derived their secret, each
\* from its own private key and the other's x-only public key, neither call
\* failed and the two 32-byte secrets are equal, whatever the parities of
\* the two real public points.
C4_Symmetry ==
    (secAB # None /\ secBA # None) =>
        /\ secAB.err = "nil" /\ secBA.err = "nil"
        /\ Len(secAB.secret) = 32
        /\ secAB.secret = secBA.secret

\* both peers derived, and the real public points have different parities,
\* so that one of them was reconstructed as the negated point
C4_Witness ==
    /\ secAB # None /\ secBA # None
    /\ parA = 1 /\ parB = 0
    /\ skA # skB
    /\ secAB.err = "nil" /\ secAB.secret = secBA.secret

\* what the specification accepts as a private key: 64 hex digits whose
\* value is a scalar in 1..n-1
SkFormatOK(sk) == Len(sk) = 2 * KeyLen /\ ~ HexDecodeString(sk).err
SkRangeOK(sk) ==
    LET v == BytesToInt(HexDecodeString(sk).val, 1, 0) IN v >= 1 /\ v < CurveN

\* what the specification accepts as a public key: 64 hex digits whose
\* value is the x coordinate of a curve point
PubFormatOK(pub) == Len(pub) = 2 * KeyLen /\ ~ HexDecodeString(pub).err
PubPointOK(pub) ==
    LET x == BytesToInt(HexDecodeString(pub).val, 1, 0)
    IN  x < FieldP /\ \E y \in 0..(FieldP - 1) : OnCurve(x, y)

\* C5: ComputeSharedSecret returns an error and no secret when the private
\* or public key hex is malformed or mis-sized, when the private scalar is
\* zero or not below the group order, or when the public x is on no curve
\* point; it returns a 32-byte secret only when both inputs are valid.
C5_RejectsInvalid ==
    (dhRes # None) =>
        LET valid == /\ SkFormatOK(dhSk) /\ SkRangeOK(dhSk)
                     /\ PubFormatOK(dhPub) /\ PubPointOK(dhPub)
        IN  /\ valid <=> dhRes.err = "nil"
            /\ dhRes.err = "nil" <=> Len(dhRes.secret) = 32
            /\ dhRes.err # "nil" => dhRes.secret = <<>>

-----------------------------------------------------------------------------
(* Claims about Encrypt and Decrypt                                        *)

\* C1: whenever Encrypt succeeded under a 32-byte key and Decrypt was run
\* on the payload it returned with the same key, Decrypt succeeded and
\* returned exactly the plaintext, the empty plaintext included.
C1_RoundTrip ==
    (rtOut # NoDec /\ Len(encKey) = KeyLen) =>
        rtOut.kind = "ok" /\ rtOut.text = encMsg

ErrorKinds == {"FormatError", "UnsupportedVersionError", "TruncatedPayloadError",
               "CipherError"}

\* C2: every Decrypt call ends by returning a plaintext or one of the
\* error values; none ends in a run-time panic.
C2_DecryptNeverPanics ==
    (decOut # NoDec) => decOut.kind \in ErrorKinds \cup {"ok"}

\* C7: a successful Encrypt returns padded standard base64, without line
\* breaks, of a frame of exactly 25 + len(message) bytes: byte 0 is 1,
\* bytes 1..24 are the nonce drawn for the call, and byte 25 + i is byte i
\* of the message XORed with byte i of the keystream of (key, nonce).
C7_WireFormat ==
    (encOut.err = "nil") =>
        LET p     == encOut.payload
            dec   == DecodeString(p)
            frame == dec.val
            n     == 1 + NonceLen + Len(encMsg)
        IN  /\ Len(p) = 4 * ((n + 2) \div 3)
            /\ \A i \in 1..Len(p) :
                   \/ DecodeChar(p[i]) # -1
                   \/ p[i] = StdPadding /\ i > Len(p) - ((3 - (n % 3)) % 3)
            /\ p[Len(p)] = StdPadding <=> n % 3 # 0
            /\ ~ dec.err
            /\ Len(frame) = n
            /\ frame[1] = 1
            /\ \A i \in 1..NonceLen : frame[1 + i] = encNonce[i]
            /\ \A i \in 1..Len(encMsg) :
                   frame[1 + NonceLen + i] =
                       Xor(encMsg[i], KeystreamByte(encKey, encNonce, i))

\* Encrypt succeeded on a multi-byte plaintext with the second nonce
C7_Witness ==
    /\ encOut.err = "nil"
    /\ encMsg = <<226, 130, 172, 33>>
    /\ encNonce = NonceOf(2)
    /\ Len(encOut.payload) = 40

PayloadNonce(p) == Slice(DecodeString(p).val, 2, 1 + NonceLen)

\* C8: in every interleaving of Encrypt calls, the payload a call returns
\* carries the nonce that this call drew into its own buffer; two calls
\* that returned payloads under the same key did so with different nonces;
\* and a call whose draw failed returned an error and no payload.
C8_NonceFreshness ==
    /\ \A c \in Calls :
           callPc[c] = "done" =>
               /\ callOut[c].err = "nil"
               /\ PayloadNonce(callOut[c].payload) = nonceBuf[c]
    /\ \A c, d \in Calls :
           (c < d /\ callPc[c] = "done" /\ callPc[d] = "done"
                  /\ callKey[c] = callKey[d]) =>
               PayloadNonce(callOut[c].payload) # PayloadNonce(callOut[d].payload)
    /\ \A c \in Calls :
           callPc[c] = "failed" =>
               callOut[c].err = "RandError" /\ callOut[c].payload = <<>>

\* two calls under one key both drew before either returned, and both have
\* returned; a third call failed to draw
C8_Witness ==
    /\ callPc[1] = "done" /\ callPc[2] = "done" /\ callPc[3] = "failed"
    /\ callKey[1] = callKey[2] /\ callMsg[1] = callMsg[2]
    /\ callOut[1].payload # callOut[2].payload
    /\ randCount = 2

-----------------------------------------------------------------------------
(* Claims about events                                                     *)

\* C3: whatever identifier string the event stores, CheckID ends without a
\* run-time panic and returns what the case-sensitive comparison
\* GetID(event) == event.ID returns.
C3_CheckIDEquivalence ==
    (chkOut # "pending") =>
        chkOut = (IF GetID(evt) = evt.ID THEN "true" ELSE "false")

RECURSIVE JoinFrom(_, _, _)
JoinFrom(parts, sep, i) ==
    IF i > Len(parts) THEN <<>>
    ELSE (IF i > 1 THEN sep ELSE <<>>) \o parts[i] \o JoinFrom(parts, sep, i + 1)

\* a JSON array without whitespace: the parts between brackets, separated
\* by single commas
Array(parts) == <<"[">> \o JoinFrom(parts, <<",">>, 1) \o <<"]">>

\* a quoted, escaped string literal
Quoted(s) == escapeString(<<>>, s)

\* [0,"<pubkey>",<created_at>,<kind>,[<tags>],<escaped content>], a function
\* of the five fields only
Canonical(pubkey, createdAt, kind, tags, content) ==
    Array(<< <<"0">>,
             <<"\"">> \o pubkey \o <<"\"">>,
             FormatInt(createdAt),
             FormatInt(kind),
             Array([i \in 1..Len(tags) |->
                       Array([j \in 1..Len(tags[i]) |-> Quoted(tags[i][j])])]),
             Quoted(content) >>)

\* the worked example: pubkey of 64 "a", created_at 1700000000, kind 1,
\* tags [["e","abc"]], content "hi"
ExampleBytes ==
    <<"[", "0", ",", "\"">> \o Repeat("a", 64)
    \o <<"\"", ",", "1", "7", "0", "0", "0", "0", "0", "0", "0", "0", ",", "1", ",",
         "[", "[", "\"", "e", "\"", ",", "\"", "a", "b", "c", "\"", "]", "]", ",",
         "\"", "h", "i", "\"", "]">>

IsExample(e) ==
    /\ e.PubKey = Repeat("a", 64) /\ e.CreatedAt = 1700000000 /\ e.Kind = 1
    /\ e.Tags = << <<TagE, TagABC>> >> /\ e.Content = <<"h", "i">>

\* C10: what Serialize returns is exactly the whitespace-free array
\* [0,"<pubkey>",<created_at>,<kind>,[<tags>],<escaped content>] built from
\* pubkey, created_at, kind, tags and content alone (so ID and Sig have no
\* influence), tags and items in the given order separated by single
\* commas, an empty tag list and an empty inner tag both rendered as [];
\* on the worked example it is the expected literal.
C10_SerializeExact ==
    (serOut # Pending) =>
        /\ serOut = Canonical(evt.PubKey, evt.CreatedAt, evt.Kind, evt.Tags, evt.Content)
        /\ IsExample(evt) => serOut = ExampleBytes
        /\ \A i \in 1..Len(serOut) : serOut[i] \notin {" ", "\n", "\t", "\r"}
        /\ evt.Tags = <<>> =>
               SubSeq(serOut, Len(serOut) - Len(Quoted(evt.Content)) - 3,
                      Len(serOut) - Len(Quoted(evt.Content)) - 1) = <<"[", "]", ",">>

\* Serialize ran on the worked example while the event carried a signature
\* and an over-long identifier
C10_Witness ==
    /\ IsExample(evt) /\ evt.Sig = <<"a", "b">> /\ Len(evt.ID) = 66
    /\ serOut = ExampleBytes

\* C6: when an event published under its own identifier is changed in at
\* least one of pubkey, created_at, kind, tags (order and grouping of items
\* included) or content, the changed event serializes to different bytes,
\* the hashed message differs, GetID differs from the old identifier and
\* CheckID rejects the old identifier; pubkeys are arbitrary strings.
C6_Binding ==
    /\ (evB # NoEvent) => serB # serA
    /\ (chkB # "pending") =>
           /\ PrefixedMessage(serB) # PrefixedMessage(serA)
           /\ idB # evA.ID
           /\ chkB = "false"

\* the pubkey was changed from a" ,1 to a and the identifier was rejected
C6_Witness ==
    /\ chkB = "false"
    /\ evA.PubKey = <<"a", "\"", ",", "1">> /\ evB.PubKey = <<"a">>
    /\ evA.CreatedAt = 1 /\ evB.CreatedAt = 11
    /\ evA.Tags = evB.Tags /\ evA.Content = evB.Content

=============================================================================
